---- MODULE Spec2Model ----
(***************************************************************************)
(* A model of the txtar package: the marker scanner (findFileMarker,       *)
(* isMarker), Parse, the Archive store (Has, Write, Read, Delete, String,  *)
(* Equal) and the construction options.  Texts are sequences of            *)
(* one-character strings, so that trimming, scanning and serialising are   *)
(* computed byte by byte as the Go code computes them.                     *)
(*                                                                         *)
(* Two revisions of the package are modelled:                              *)
(*   - the ordered-map revision (files *orderedmap.Map[string,string]),    *)
(*     variables input, a, origin, prev, op, err, steps; specification     *)
(*     Spec;                                                               *)
(*   - the first, map-backed revision (files map[string][]byte, Add),      *)
(*     variable m (with prev, op, err, steps); specification SpecMap.      *)
(* The loops of Parse and findFileMarker are also followed one iteration   *)
(* at a time: variables input and scan, specification SpecScan.            *)
(***************************************************************************)
EXTENDS Integers, Sequences, FiniteSets

VARIABLES
    input,   \* the bytes the io.Reader handed to Parse will deliver
    a,       \* the ordered-map Archive the caller holds (possibly a nil pointer)
    origin,  \* the call that produced a: "none", "New", "Parse" or "ZeroValue"
    edited,  \* whether Write or Delete has been called on a since
    prev,    \* the archive as it was before the last call
    op,      \* the last call: its name, arguments and results
    err,     \* the error returned by the last call (a list of messages, <<>> is nil)
    steps,   \* number of calls made so far
    m,       \* the map-backed Archive of the first revision
    scan     \* the position of Parse inside its loops, when it is followed step by step

vars == <<input, a, origin, edited, prev, op, err, steps, m, scan>>

(***************************************************************************)
(* Bound of the exploration: the number of calls of a run, a piece fed to  *)
(* the reader and an option passed to New counting as one call each.       *)
(***************************************************************************)
MaxSteps == 4

(***************************************************************************)
(* Bytes and strings.                                                      *)
(***************************************************************************)
Whitespace == {" ", "\n", "\t", "\r"}

Slice(s, i, j) == SubSeq(s, i + 1, j)

SliceFrom(s, i) == SubSeq(s, i + 1, Len(s))

TrimSpace(s) ==
    LET keep == {i \in 1..Len(s) : s[i] \notin Whitespace}
    IN IF keep = {} THEN <<>>
       ELSE LET lo == CHOOSE i \in keep : \A k \in keep : i <= k
                hi == CHOOSE i \in keep : \A k \in keep : i >= k
            IN SubSeq(s, lo, hi)

HasPrefix(s, prefix) ==
    Len(s) >= Len(prefix) /\ SubSeq(s, 1, Len(prefix)) = prefix

HasSuffix(s, suffix) ==
    Len(s) >= Len(suffix) /\ SubSeq(s, Len(s) - Len(suffix) + 1, Len(s)) = suffix

Index(s, sep) ==
    LET hits == {i \in 0..(Len(s) - Len(sep)) : SubSeq(s, i + 1, i + Len(sep)) = sep}
    IN IF hits = {} THEN -1 ELSE CHOOSE i \in hits : \A k \in hits : i <= k

IndexByte(s, c) == Index(s, <<c>>)

bytesContains(s, sub) == Index(s, sub) >= 0

RECURSIVE ReplaceAll(_, _, _)
ReplaceAll(s, old, new) ==
    IF Len(s) = 0 THEN <<>>
    ELSE IF HasPrefix(s, old) THEN new \o ReplaceAll(SliceFrom(s, Len(old)), old, new)
    ELSE <<Head(s)>> \o ReplaceAll(Tail(s), old, new)

marker == <<"-", "-", " ">>

markerEnd == <<" ", "-", "-">>

newlineMarker == <<"\n", "-", "-", " ">>

\* A []byte that may be nil.
NilBytes == [nil |-> TRUE, b |-> <<>>]

Bytes(s) == [nil |-> FALSE, b |-> s]

fixNL(data) ==
    IF Len(data) = 0 \/ data[Len(data)] = "\n" THEN data ELSE data \o <<"\n">>

(***************************************************************************)
(* The marker scanner.                                                     *)
(***************************************************************************)
\* isMarker, returning the name untrimmed.
isMarker_NameUntrimmed(data) ==
    IF ~HasPrefix(data, marker) THEN [name |-> <<>>, after |-> NilBytes]
    ELSE LET i == IndexByte(data, "\n")
             line == IF i >= 0 THEN Slice(data, 0, i) ELSE data
             after == IF i >= 0 THEN Bytes(SliceFrom(data, i + 1)) ELSE NilBytes
         IN IF ~(HasSuffix(line, markerEnd)
                  /\ Len(line) >= Len(marker) + Len(markerEnd))
            THEN [name |-> <<>>, after |-> NilBytes]
            ELSE [name |-> Slice(line, Len(marker), Len(line) - Len(markerEnd)),
                  after |-> after]

\* isMarker, trimming the line before it looks for "-- " and " --".
isMarker_TrimsLine(data) ==
    LET i == IndexByte(data, "\n")
        line == TrimSpace(IF i >= 0 THEN Slice(data, 0, i) ELSE data)
        after == IF i >= 0 THEN Bytes(SliceFrom(data, i + 1)) ELSE NilBytes
    IN IF ~(HasPrefix(line, marker) /\ HasSuffix(line, markerEnd)
             /\ Len(line) >= Len(marker) + Len(markerEnd))
       THEN [name |-> <<>>, after |-> NilBytes]
       ELSE [name |-> TrimSpace(Slice(line, Len(marker), Len(line) - Len(markerEnd))),
             after |-> after]

isMarker(data) ==
    IF ~HasPrefix(data, marker) THEN [name |-> <<>>, after |-> NilBytes]
    ELSE LET i == IndexByte(data, "\n")
             line == IF i >= 0 THEN Slice(data, 0, i) ELSE data
             after == IF i >= 0 THEN Bytes(SliceFrom(data, i + 1)) ELSE NilBytes
         IN IF ~(HasSuffix(line, markerEnd)
                  /\ Len(line) >= Len(marker) + Len(markerEnd))
            THEN [name |-> <<>>, after |-> NilBytes]
            ELSE [name |-> TrimSpace(Slice(line, Len(marker), Len(line) - Len(markerEnd))),
                  after |-> after]

RECURSIVE findFileMarkerFrom(_, _)
findFileMarkerFrom(data, i) ==
    LET mk == isMarker(SliceFrom(data.b, i))
    IN IF Len(mk.name) # 0
       THEN [before |-> Slice(data.b, 0, i), name |-> mk.name, after |-> mk.after]
       ELSE LET j == Index(SliceFrom(data.b, i), newlineMarker)
            IN IF j < 0
               THEN [before |-> data.b, name |-> <<>>, after |-> NilBytes]
               ELSE findFileMarkerFrom(data, i + j + 1)

\* findFileMarker, returning an empty rest and not a nil one when there is no marker.
findFileMarker_RestNotNil(data) ==
    LET r == findFileMarkerFrom(data, 0)
    IN IF Len(r.name) = 0 THEN [r EXCEPT !.after = Bytes(<<>>)] ELSE r

findFileMarker(data) == findFileMarkerFrom(data, 0)

(***************************************************************************)
(* The ordered map (github.com/FollowTheProcess/collections/orderedmap):   *)
(* a sequence of entries with pairwise distinct keys, in insertion order.  *)
(***************************************************************************)
omNew == <<>>

omSize(files) == Len(files)

omContains(files, key) == \E i \in 1..Len(files) : files[i].name = key

omGet(files, key) ==
    IF omContains(files, key)
    THEN [value |-> files[CHOOSE i \in 1..Len(files) : files[i].name = key].data,
          ok |-> TRUE]
    ELSE [value |-> <<>>, ok |-> FALSE]

\* Insert, leaving the value of a key the map already holds.
omInsert_KeepsOld(files, key, value) ==
    IF omContains(files, key) THEN files
    ELSE Append(files, [name |-> key, data |-> value])

\* Insert, putting a new key in front.
omInsert_AtFront(files, key, value) ==
    IF omContains(files, key)
    THEN [i \in 1..Len(files) |->
            IF files[i].name = key THEN [name |-> key, data |-> value] ELSE files[i]]
    ELSE <<[name |-> key, data |-> value]>> \o files

omInsert(files, key, value) ==
    IF omContains(files, key)
    THEN [i \in 1..Len(files) |->
            IF files[i].name = key THEN [name |-> key, data |-> value] ELSE files[i]]
    ELSE Append(files, [name |-> key, data |-> value])

omRemove(files, key) ==
    LET keep == {i \in 1..Len(files) : files[i].name # key}
        F[n \in 0..Len(files)] ==
            IF n = 0 THEN <<>>
            ELSE IF n \in keep THEN Append(F[n - 1], files[n]) ELSE F[n - 1]
    IN F[Len(files)]

(***************************************************************************)
(* The Archive of the ordered-map revision.  nil: the *Archive is a nil    *)
(* pointer; hasMap: the files field is a non-nil map.                      *)
(***************************************************************************)
Nil == [nil |-> TRUE, hasMap |-> FALSE, files |-> <<>>, comment |-> <<>>]

ZeroArchive == [nil |-> FALSE, hasMap |-> FALSE, files |-> <<>>, comment |-> <<>>]

NewArchive == [nil |-> FALSE, hasMap |-> TRUE, files |-> omNew, comment |-> <<>>]

\* The nil *Archive of the first revision.
mapNil == [nil |-> TRUE, files |-> <<>>, comment |-> <<>>]

\* Parse is not being followed.
NoScan == [pc |-> "none", data |-> NilBytes, i |-> 0, calls |-> 0, names |-> <<>>,
           skipped |-> {}, failed |-> FALSE, slices |-> {}]

init(ar) == [ar EXCEPT !.hasMap = TRUE]

Comment(ar) == IF ar.nil THEN <<>> ELSE ar.comment

\* Has, looking the name up as given.
Has_NameAsGiven(ar, name) == IF ar.nil THEN FALSE ELSE omContains(ar.files, name)

Has(ar, name) == IF ar.nil THEN FALSE ELSE omContains(ar.files, TrimSpace(name))

ErrWriteNil == "Write called on a nil Archive"

\* Write, storing the contents without trimming them.
Write_ContentsAsGiven(ar, name, contents) ==
    IF ar.nil THEN [a |-> ar, err |-> <<ErrWriteNil>>]
    ELSE [a |-> [init(ar) EXCEPT
                    !.files = omInsert(ar.files, TrimSpace(name), fixNL(contents))],
          err |-> <<>>]

\* Write, leaving the contents of a file that is already present.
Write_KeepsExisting(ar, name, contents) ==
    IF ar.nil THEN [a |-> ar, err |-> <<ErrWriteNil>>]
    ELSE IF omContains(ar.files, TrimSpace(name)) THEN [a |-> init(ar), err |-> <<>>]
    ELSE [a |-> [init(ar) EXCEPT
                    !.files = omInsert(ar.files, TrimSpace(name), fixNL(TrimSpace(contents)))],
          err |-> <<>>]

\* Write, returning nil on a nil receiver.
Write_NilReturnsNoError(ar, name, contents) ==
    IF ar.nil THEN [a |-> ar, err |-> <<>>]
    ELSE [a |-> [init(ar) EXCEPT
                    !.files = omInsert(ar.files, TrimSpace(name), fixNL(TrimSpace(contents)))],
          err |-> <<>>]

Write(ar, name, contents) ==
    IF ar.nil THEN [a |-> ar, err |-> <<ErrWriteNil>>]
    ELSE [a |-> [init(ar) EXCEPT
                    !.files = omInsert(ar.files, TrimSpace(name), fixNL(TrimSpace(contents)))],
          err |-> <<>>]

\* Read, looking the name up as given.
Read_NameAsGiven(ar, name) ==
    IF ar.nil THEN [value |-> <<>>, ok |-> FALSE]
    ELSE omGet(ar.files, name)

Read(ar, name) ==
    IF ar.nil THEN [value |-> <<>>, ok |-> FALSE]
    ELSE omGet(ar.files, TrimSpace(name))

\* Delete, looking the name up as given.
Delete_NameAsGiven(ar, name) ==
    IF ar.nil THEN ar
    ELSE [init(ar) EXCEPT !.files = omRemove(ar.files, name)]

Delete(ar, name) ==
    IF ar.nil THEN ar
    ELSE [init(ar) EXCEPT !.files = omRemove(ar.files, TrimSpace(name))]

Size(ar) == IF ar.nil THEN 0 ELSE omSize(ar.files)

RECURSIVE writeFiles(_)
writeFiles(files) ==
    IF Len(files) = 0 THEN <<>>
    ELSE marker \o Head(files).name \o markerEnd \o <<"\n">> \o Head(files).data
         \o writeFiles(Tail(files))

\* String, forgetting the newline that ends the comment.
String_CommentNotTerminated(ar) ==
    IF ar.nil THEN <<>>
    ELSE ar.comment \o writeFiles(ar.files)

String(ar) ==
    IF ar.nil THEN <<>>
    ELSE (IF Len(ar.comment) # 0
          THEN ar.comment \o <<"\n">> \o (IF omSize(ar.files) # 0 THEN <<"\n">> ELSE <<>>)
          ELSE <<>>)
         \o writeFiles(ar.files)

\* The (name, contents) pairs the iterator yields, in its order.
Files(ar) == IF ar.nil THEN <<>> ELSE ar.files

Equal(x, y) ==
    IF x.nil /\ y.nil THEN TRUE
    ELSE IF x.nil \/ y.nil THEN FALSE
    ELSE IF ~x.hasMap /\ ~y.hasMap THEN TRUE
    ELSE IF ~x.hasMap \/ ~y.hasMap THEN FALSE
    ELSE IF x.comment # y.comment THEN FALSE
    ELSE IF omSize(x.files) # omSize(y.files) THEN FALSE
    ELSE \A i \in 1..Len(x.files) :
            LET got == omGet(y.files, x.files[i].name)
            IN got.ok /\ got.value = x.files[i].data

(***************************************************************************)
(* Parse.                                                                  *)
(***************************************************************************)
ErrEmpty == "Parse: cannot parse empty txtar archive"

ErrNoFiles == "Parse: archive contains no files"

ErrUnterminated == "Parse: unterminated file marker"

\* The file loop of Parse, dropping the files that have no contents.
RECURSIVE parseFiles_SkipsEmpty(_, _, _)
parseFiles_SkipsEmpty(name, data, files) ==
    IF Len(name) = 0 THEN files
    ELSE LET next == findFileMarker(data)
             stored == fixNL(TrimSpace(next.before))
         IN parseFiles_SkipsEmpty(next.name, next.after,
                IF Len(stored) = 0 THEN files ELSE omInsert(files, name, stored))

RECURSIVE parseFiles(_, _, _)
parseFiles(name, data, files) ==
    IF Len(name) = 0 THEN files
    ELSE LET next == findFileMarker(data)
         IN parseFiles(next.name, next.after,
                       omInsert(files, name, fixNL(TrimSpace(next.before))))

\* Parse, without the check for an empty input.
Parse_NoEmptyCheck(r) ==
    IF ~bytesContains(r, marker) THEN [a |-> Nil, err |-> <<ErrNoFiles>>]
    ELSE LET data == ReplaceAll(r, <<"\r", "\n">>, <<"\n">>)
             first == findFileMarker(Bytes(data))
         IN IF first.after.nil THEN [a |-> Nil, err |-> <<ErrUnterminated>>]
            ELSE [a |-> [nil |-> FALSE, hasMap |-> TRUE,
                         comment |-> TrimSpace(first.before),
                         files |-> parseFiles(first.name, first.after, omNew)],
                  err |-> <<>>]

\* Parse, without the check that a marker was found (as in the first revision).
Parse_NoUnterminatedCheck(r) ==
    IF Len(r) = 0 THEN [a |-> Nil, err |-> <<ErrEmpty>>]
    ELSE IF ~bytesContains(r, marker) THEN [a |-> Nil, err |-> <<ErrNoFiles>>]
    ELSE LET data == ReplaceAll(r, <<"\r", "\n">>, <<"\n">>)
             first == findFileMarker(Bytes(data))
         IN [a |-> [nil |-> FALSE, hasMap |-> TRUE,
                    comment |-> TrimSpace(first.before),
                    files |-> parseFiles(first.name, first.after, omNew)],
             err |-> <<>>]

\* Parse, without reading CR LF as LF (as in the first revision).
Parse_KeepsCRLF(r) ==
    IF Len(r) = 0 THEN [a |-> Nil, err |-> <<ErrEmpty>>]
    ELSE IF ~bytesContains(r, marker) THEN [a |-> Nil, err |-> <<ErrNoFiles>>]
    ELSE LET first == findFileMarker(Bytes(r))
         IN IF first.after.nil THEN [a |-> Nil, err |-> <<ErrUnterminated>>]
            ELSE [a |-> [nil |-> FALSE, hasMap |-> TRUE,
                         comment |-> TrimSpace(first.before),
                         files |-> parseFiles(first.name, first.after, omNew)],
                  err |-> <<>>]

\* Parse, returning what it has read so far together with the error.
Parse_ArchiveWithError(r) ==
    IF Len(r) = 0 THEN [a |-> Nil, err |-> <<ErrEmpty>>]
    ELSE IF ~bytesContains(r, marker) THEN [a |-> Nil, err |-> <<ErrNoFiles>>]
    ELSE LET data == ReplaceAll(r, <<"\r", "\n">>, <<"\n">>)
             first == findFileMarker(Bytes(data))
         IN IF first.after.nil
            THEN [a |-> [nil |-> FALSE, hasMap |-> TRUE,
                         comment |-> TrimSpace(first.before), files |-> omNew],
                  err |-> <<ErrUnterminated>>]
            ELSE [a |-> [nil |-> FALSE, hasMap |-> TRUE,
                         comment |-> TrimSpace(first.before),
                         files |-> parseFiles(first.name, first.after, omNew)],
                  err |-> <<>>]

Parse(r) ==
    IF Len(r) = 0 THEN [a |-> Nil, err |-> <<ErrEmpty>>]
    ELSE IF ~bytesContains(r, marker) THEN [a |-> Nil, err |-> <<ErrNoFiles>>]
    ELSE LET data == ReplaceAll(r, <<"\r", "\n">>, <<"\n">>)
             first == findFileMarker(Bytes(data))
         IN IF first.after.nil THEN [a |-> Nil, err |-> <<ErrUnterminated>>]
            ELSE [a |-> [nil |-> FALSE, hasMap |-> TRUE,
                         comment |-> TrimSpace(first.before),
                         files |-> parseFiles(first.name, first.after, omNew)],
                  err |-> <<>>]

(***************************************************************************)
(* Construction: the options and New.                                      *)
(***************************************************************************)
WithComment(comment) == [kind |-> "WithComment", name |-> <<>>, contents |-> comment]

WithFile(name, contents) == [kind |-> "WithFile", name |-> name, contents |-> contents]

\* The closure WithComment returns.
setComment(ar, comment) == [a |-> [ar EXCEPT !.comment = TrimSpace(comment)], err |-> <<>>]

\* The closure WithFile returns, in the revision whose contents are strings.
addFile(ar, name, contents) == Write(ar, name, contents)

applyOption(option, ar) ==
    IF option.kind = "WithComment"
    THEN setComment(ar, option.contents)
    ELSE addFile(ar, option.name, option.contents)

RECURSIVE applyOptions(_, _, _)
applyOptions(options, ar, errs) ==
    IF Len(options) = 0 THEN [a |-> ar, err |-> errs]
    ELSE LET r == applyOption(Head(options), ar)
         IN applyOptions(Tail(options), r.a, errs \o r.err)

New(options) ==
    LET r == applyOptions(options, NewArchive, <<>>)
    IN IF Len(r.err) # 0 THEN [a |-> Nil, err |-> r.err] ELSE [a |-> r.a, err |-> <<>>]

(***************************************************************************)
(* The arguments the calls are explored with.                              *)
(***************************************************************************)
MarkerLine(name) == marker \o name \o markerEnd

NameArgs == {<<"a">>, <<" ", "a", "\n">>, <<"b">>, <<>>, <<"a", "\n", "b">>}

LookupArgs == {<<"a">>, <<" ", "a", "\n">>, <<"b">>}

ContentArgs ==
    {<<" ", "\n">>, <<" ", "x", " ", "\n">>, MarkerLine(<<"b">>), <<"x", "\r", "\n", "x">>}

CommentArgs ==
    {<<>>, <<" ", "c", "\n">>, MarkerLine(<<"a">>), <<"c", "\r", "\n", "c">>}

Pieces ==
    { MarkerLine(<<"a">>) \o <<"\n">>,
      MarkerLine(<<" ", "b", "\t">>) \o <<"\n">>,
      <<" ">> \o MarkerLine(<<"b">>) \o <<"\n">>,
      MarkerLine(<<" ">>) \o <<"\n">>,
      marker \o <<"a", "\n">>,
      <<"x", "\n">>,
      <<"\n">>,
      MarkerLine(<<"a">>) \o <<"\r", "\n">>,
      MarkerLine(<<"a">>),
      <<"x">>,
      <<"\r", "\r", "\n">>,
      MarkerLine(<<>>) \o <<"\n">>,
      <<"-", "-", " ", "-", "-", "\n">>,
      marker \o <<"\n">> }

Options ==
    {WithComment(c) : c \in CommentArgs}
        \cup {WithFile(n, c) : n \in NameArgs, c \in ContentArgs}

OptionLists == UNION {[1..n -> Options] : n \in 0..(MaxSteps - 1)}

(***************************************************************************)
(* The calls of the ordered-map revision.                                  *)
(***************************************************************************)
\* from, edited: the origin of the receiver at the time of the call, and whether
\* it had been edited.
Call(name, from, wasEdited, arg, contents, ok, value) ==
    [call |-> name, from |-> from, edited |-> wasEdited, name |-> arg,
     contents |-> contents, ok |-> ok, value |-> value]

Start == Call("start", "none", FALSE, <<>>, <<>>, FALSE, <<>>)

Init ==
    /\ input = <<>>
    /\ a = Nil
    /\ origin = "none"
    /\ edited = FALSE
    /\ prev = Nil
    /\ op = Start
    /\ err = <<>>
    /\ steps = 0
    /\ m = mapNil
    /\ scan = NoScan

\* The caller prepares the reader's content, piece by piece.
Feed(piece) ==
    /\ op = Start
    /\ steps < MaxSteps - 1
    /\ input' = input \o piece
    /\ steps' = steps + 1
    /\ UNCHANGED <<a, origin, edited, prev, op, err, m, scan>>

\* archive, err := txtar.Parse(reader); io.ReadAll drains the reader.
CallParse ==
    /\ op = Start
    /\ steps < MaxSteps
    /\ LET r == Parse(input)
       IN /\ a' = r.a
          /\ err' = r.err
    /\ origin' = "Parse"
    /\ edited' = FALSE
    /\ prev' = a
    /\ op' = Call("Parse", origin, edited, <<>>, input, FALSE, <<>>)
    /\ input' = <<>>
    /\ steps' = steps + 1
    /\ UNCHANGED <<m, scan>>

\* after, err := txtar.Parse(strings.NewReader(archive.String()))
\* prev is the receiver of String, which String has initialised.
CallReparse ==
    /\ op # Start
    /\ steps < MaxSteps
    /\ LET r == Parse(String(a))
       IN /\ a' = r.a
          /\ err' = r.err
    /\ origin' = "Parse"
    /\ edited' = FALSE
    /\ prev' = IF a.nil THEN a ELSE init(a)
    /\ op' = Call("Reparse", origin, edited, <<>>, String(a), FALSE, <<>>)
    /\ steps' = steps + 1
    /\ UNCHANGED <<input, m, scan>>

\* archive, err := txtar.New(options...)
CallNew(options) ==
    /\ op = Start
    /\ input = <<>>
    /\ steps + 1 + Len(options) <= MaxSteps
    /\ LET r == New(options)
       IN /\ a' = r.a
          /\ err' = r.err
    /\ origin' = "New"
    /\ edited' = FALSE
    /\ prev' = a
    /\ op' = Call("New", origin, edited, <<>>, <<>>, FALSE, <<>>)
    /\ steps' = steps + 1 + Len(options)
    /\ UNCHANGED <<input, m, scan>>

\* archive := &txtar.Archive{}
ZeroValue ==
    /\ op = Start
    /\ input = <<>>
    /\ steps < MaxSteps
    /\ a' = ZeroArchive
    /\ origin' = "ZeroValue"
    /\ edited' = FALSE
    /\ prev' = a
    /\ op' = Call("ZeroValue", origin, edited, <<>>, <<>>, FALSE, <<>>)
    /\ err' = <<>>
    /\ steps' = steps + 1
    /\ UNCHANGED <<input, m, scan>>

CallWrite(name, contents) ==
    /\ input = <<>>
    /\ steps < MaxSteps
    /\ LET r == Write(a, name, contents)
       IN /\ a' = r.a
          /\ err' = r.err
    /\ prev' = a
    /\ op' = Call("Write", origin, edited, name, contents, FALSE, <<>>)
    /\ edited' = TRUE
    /\ steps' = steps + 1
    /\ UNCHANGED <<input, origin, m, scan>>

CallDelete(name) ==
    /\ input = <<>>
    /\ steps < MaxSteps
    /\ a' = Delete(a, name)
    /\ prev' = a
    /\ op' = Call("Delete", origin, edited, name, <<>>, FALSE, <<>>)
    /\ edited' = TRUE
    /\ err' = <<>>
    /\ steps' = steps + 1
    /\ UNCHANGED <<input, origin, m, scan>>

CallHas(name) ==
    /\ input = <<>>
    /\ steps < MaxSteps
    /\ a' = IF a.nil THEN a ELSE init(a)
    /\ prev' = a
    /\ op' = Call("Has", origin, edited, name, <<>>, Has(a, name), <<>>)
    /\ err' = <<>>
    /\ steps' = steps + 1
    /\ UNCHANGED <<input, origin, edited, m, scan>>

CallRead(name) ==
    /\ input = <<>>
    /\ steps < MaxSteps
    /\ a' = IF a.nil THEN a ELSE init(a)
    /\ prev' = a
    /\ op' = Call("Read", origin, edited, name, <<>>, Read(a, name).ok, Read(a, name).value)
    /\ err' = <<>>
    /\ steps' = steps + 1
    /\ UNCHANGED <<input, origin, edited, m, scan>>

\* archive.Comment() does not touch the receiver.
CallComment ==
    /\ input = <<>>
    /\ steps < MaxSteps
    /\ prev' = a
    /\ op' = Call("Comment", origin, edited, <<>>, <<>>, FALSE, Comment(a))
    /\ err' = <<>>
    /\ steps' = steps + 1
    /\ UNCHANGED <<input, a, origin, edited, m, scan>>

CallSize ==
    /\ input = <<>>
    /\ steps < MaxSteps
    /\ a' = IF a.nil THEN a ELSE init(a)
    /\ prev' = a
    /\ op' = Call("Size", origin, edited, <<>>, <<>>, FALSE, <<>>)
    /\ err' = <<>>
    /\ steps' = steps + 1
    /\ UNCHANGED <<input, origin, edited, m, scan>>

CallString ==
    /\ input = <<>>
    /\ steps < MaxSteps
    /\ a' = IF a.nil THEN a ELSE init(a)
    /\ prev' = a
    /\ op' = Call("String", origin, edited, <<>>, <<>>, FALSE, String(a))
    /\ err' = <<>>
    /\ steps' = steps + 1
    /\ UNCHANGED <<input, origin, edited, m, scan>>

CallFiles ==
    /\ input = <<>>
    /\ steps < MaxSteps
    /\ a' = IF a.nil THEN a ELSE init(a)
    /\ prev' = a
    /\ op' = Call("Files", origin, edited, <<>>, <<>>, FALSE, <<>>)
    /\ err' = <<>>
    /\ steps' = steps + 1
    /\ UNCHANGED <<input, origin, edited, m, scan>>

Next ==
    \/ op = Start /\ \E piece \in Pieces : Feed(piece)
    \/ CallParse
    \/ CallReparse
    \/ op = Start /\ input = <<>> /\ \E options \in OptionLists : CallNew(options)
    \/ ZeroValue
    \/ \E name \in NameArgs, contents \in ContentArgs : CallWrite(name, contents)
    \/ \E name \in LookupArgs : CallDelete(name)
    \/ \E name \in LookupArgs : CallHas(name)
    \/ \E name \in LookupArgs : CallRead(name)
    \/ CallComment
    \/ CallSize
    \/ CallString
    \/ CallFiles

Spec == Init /\ [][Next]_vars

(***************************************************************************)
(* The first revision: files is a Go map (here a function on the set of    *)
(* names), contents are stored without a final newline, String sorts the   *)
(* names, WithComment stores the comment as given and WithFile calls Add.  *)
(***************************************************************************)
mapStore(files, key, value) ==
    [k \in (DOMAIN files) \cup {key} |-> IF k = key THEN value ELSE files[k]]

mapRemove(files, key) == [k \in (DOMAIN files) \ {key} |-> files[k]]

mapHas(ar, name) == TrimSpace(name) \in DOMAIN ar.files

ErrExists == "file with name %s already exists in archive"

\* Add, overwriting a file that is already present.
Add_Overwrites(ar, name, contents) ==
    [a |-> [ar EXCEPT !.files = mapStore(ar.files, TrimSpace(name), TrimSpace(contents))],
     err |-> <<>>]

Add(ar, name, contents) ==
    IF TrimSpace(name) \in DOMAIN ar.files
    THEN [a |-> ar, err |-> <<ErrExists>>]
    ELSE [a |-> [ar EXCEPT !.files = mapStore(ar.files, TrimSpace(name), TrimSpace(contents))],
          err |-> <<>>]

mapDelete(ar, name) == [ar EXCEPT !.files = mapRemove(ar.files, TrimSpace(name))]

\* The order of bytes, for the bytes names are made of.
byteOf(c) ==
    CASE c = "\t" -> 9
      [] c = "\n" -> 10
      [] c = "\r" -> 13
      [] c = " " -> 32
      [] c = "-" -> 45
      [] c = "a" -> 97
      [] c = "b" -> 98
      [] c = "c" -> 99
      [] c = "x" -> 120

RECURSIVE less(_, _)
less(s, t) ==
    IF Len(t) = 0 THEN FALSE
    ELSE IF Len(s) = 0 THEN TRUE
    ELSE IF Head(s) # Head(t) THEN byteOf(Head(s)) < byteOf(Head(t))
    ELSE less(Tail(s), Tail(t))

\* slices.Sort(names)
RECURSIVE sortNames(_)
sortNames(names) ==
    IF names = {} THEN <<>>
    ELSE LET first == CHOOSE n \in names : \A k \in names \ {n} : less(n, k)
         IN <<first>> \o sortNames(names \ {first})

RECURSIVE mapWriteFiles(_, _)
mapWriteFiles(names, files) ==
    IF Len(names) = 0 THEN <<>>
    ELSE marker \o Head(names) \o markerEnd \o <<"\n">> \o files[Head(names)] \o <<"\n">>
         \o mapWriteFiles(Tail(names), files)

\* String, without the blank line between the comment and the files.
mapString_NoBlankLine(ar) ==
    (IF Len(ar.comment) # 0 THEN ar.comment \o <<"\n">> ELSE <<>>)
    \o mapWriteFiles(sortNames(DOMAIN ar.files), ar.files)

mapString(ar) ==
    (IF Len(ar.comment) # 0
     THEN ar.comment \o <<"\n">> \o (IF DOMAIN ar.files # {} THEN <<"\n">> ELSE <<>>)
     ELSE <<>>)
    \o mapWriteFiles(sortNames(DOMAIN ar.files), ar.files)

mapApplyOption(option, ar) ==
    IF option.kind = "WithComment"
    THEN [a |-> [ar EXCEPT !.comment = option.contents], err |-> <<>>]
    ELSE Add(ar, option.name, option.contents)

RECURSIVE mapApplyOptions(_, _, _)
mapApplyOptions(options, ar, errs) ==
    IF Len(options) = 0 THEN [a |-> ar, err |-> errs]
    ELSE LET r == mapApplyOption(Head(options), ar)
         IN mapApplyOptions(Tail(options), r.a, errs \o r.err)

\* New, returning only the error of the first option that fails.
mapNew_FirstErrorOnly(options) ==
    LET r == mapApplyOptions(options,
                             [nil |-> FALSE, files |-> <<>>, comment |-> <<>>], <<>>)
    IN IF Len(r.err) # 0 THEN [a |-> mapNil, err |-> <<r.err[1]>>]
       ELSE [a |-> r.a, err |-> <<>>]

mapNew(options) ==
    LET r == mapApplyOptions(options,
                             [nil |-> FALSE, files |-> <<>>, comment |-> <<>>], <<>>)
    IN IF Len(r.err) # 0 THEN [a |-> mapNil, err |-> r.err] ELSE [a |-> r.a, err |-> <<>>]

\* The scanner of the first revision, which is that of the original package:
\* when no marker is left it returns the rest with a final newline.
RECURSIVE mapFindFileMarkerFrom(_, _)
mapFindFileMarkerFrom(data, i) ==
    LET mk == isMarker(SliceFrom(data.b, i))
    IN IF Len(mk.name) # 0
       THEN [before |-> Slice(data.b, 0, i), name |-> mk.name, after |-> mk.after]
       ELSE LET j == Index(SliceFrom(data.b, i), newlineMarker)
            IN IF j < 0
               THEN [before |-> fixNL(data.b), name |-> <<>>, after |-> NilBytes]
               ELSE mapFindFileMarkerFrom(data, i + j + 1)

mapFindFileMarker(data) == mapFindFileMarkerFrom(data, 0)

\* Parse of golang.org/x/tools/txtar: the same scan, the files appended to a
\* list, nothing trimmed, no error.
RECURSIVE origFiles(_, _, _)
origFiles(name, data, files) ==
    IF Len(name) = 0 THEN files
    ELSE LET next == mapFindFileMarker(data)
         IN origFiles(next.name, next.after,
                      Append(files, [name |-> name, data |-> next.before]))

origParse(r) ==
    LET first == mapFindFileMarker(Bytes(r))
    IN [comment |-> first.before, files |-> origFiles(first.name, first.after, <<>>)]

(***************************************************************************)
(* The calls of the first revision.  A method called on the nil *Archive   *)
(* that New returns with an error dereferences nil; such runs end there.   *)
(***************************************************************************)
InitMap ==
    /\ input = <<>>
    /\ a = Nil
    /\ origin = "none"
    /\ edited = FALSE
    /\ prev = mapNil
    /\ op = Start
    /\ err = <<>>
    /\ steps = 0
    /\ m = mapNil
    /\ scan = NoScan

CallMapNew(options) ==
    /\ op = Start
    /\ steps + 1 + Len(options) <= MaxSteps
    /\ LET r == mapNew(options)
       IN /\ m' = r.a
          /\ err' = r.err
    /\ prev' = m
    /\ op' = Call("New", "none", FALSE, <<>>, options, FALSE, <<>>)
    /\ steps' = steps + 1 + Len(options)
    /\ UNCHANGED <<input, a, origin, edited, scan>>

CallAdd(name, contents) ==
    /\ ~m.nil
    /\ steps < MaxSteps
    /\ LET r == Add(m, name, contents)
       IN /\ m' = r.a
          /\ err' = r.err
    /\ prev' = m
    /\ op' = Call("Add", "New", TRUE, name, contents, FALSE, <<>>)
    /\ steps' = steps + 1
    /\ UNCHANGED <<input, a, origin, edited, scan>>

CallMapDelete(name) ==
    /\ ~m.nil
    /\ steps < MaxSteps
    /\ m' = mapDelete(m, name)
    /\ prev' = m
    /\ op' = Call("Delete", "New", TRUE, name, <<>>, FALSE, <<>>)
    /\ err' = <<>>
    /\ steps' = steps + 1
    /\ UNCHANGED <<input, a, origin, edited, scan>>

NextMap ==
    \/ op = Start /\ \E options \in OptionLists : CallMapNew(options)
    \/ \E name \in NameArgs, contents \in ContentArgs : CallAdd(name, contents)
    \/ \E name \in LookupArgs : CallMapDelete(name)

SpecMap == InitMap /\ [][NextMap]_vars

(***************************************************************************)
(* Parse followed one loop iteration at a time.  scan.data is the rest of  *)
(* the input the current call of findFileMarker works on, scan.i its       *)
(* offset i, scan.calls the number of calls of findFileMarker that have    *)
(* returned, scan.names the names they returned, scan.skipped the lines    *)
(* at which the offset was advanced, scan.slices the slice expressions     *)
(* data[lo:hi] the last iteration evaluated, each with the length of the   *)
(* slice it was taken from.                                                *)
(***************************************************************************)
ScanPieces ==
    { MarkerLine(<<"a">>) \o <<"\n">>,
      MarkerLine(<<"a">>),
      marker \o <<"a", "\n">>,
      MarkerLine(<<>>) \o <<"\n">>,
      <<"-", "-", " ", "-", "-", "\n">>,
      marker \o <<"\n">>,
      marker,
      <<"x", "\n">> }

RECURSIVE concat(_)
concat(pieces) == IF Len(pieces) = 0 THEN <<>> ELSE Head(pieces) \o concat(Tail(pieces))

ScanInputs == {concat(pieces) : pieces \in UNION {[1..n -> ScanPieces] : n \in 0..(MaxSteps - 1)}}

sliceExpr(lo, hi, len) == [lo |-> lo, hi |-> hi, len |-> len]

\* The slice expressions isMarker evaluates, with no check of the length of the line.
isMarkerSlices_NoLengthCheck(data) ==
    IF ~HasPrefix(data, marker) THEN {}
    ELSE LET i == IndexByte(data, "\n")
             line == IF i >= 0 THEN Slice(data, 0, i) ELSE data
         IN (IF i >= 0
             THEN {sliceExpr(0, i, Len(data)), sliceExpr(i + 1, Len(data), Len(data))}
             ELSE {})
            \cup (IF HasSuffix(line, markerEnd)
                  THEN {sliceExpr(Len(marker), Len(line) - Len(markerEnd), Len(line))}
                  ELSE {})

\* The slice expressions isMarker evaluates: data[:i], data[i+1:] and
\* data[len(marker) : len(data)-len(markerEnd)].
isMarkerSlices(data) ==
    IF ~HasPrefix(data, marker) THEN {}
    ELSE LET i == IndexByte(data, "\n")
             line == IF i >= 0 THEN Slice(data, 0, i) ELSE data
         IN (IF i >= 0
             THEN {sliceExpr(0, i, Len(data)), sliceExpr(i + 1, Len(data), Len(data))}
             ELSE {})
            \cup (IF HasSuffix(line, markerEnd)
                     /\ Len(line) >= Len(marker) + Len(markerEnd)
                  THEN {sliceExpr(Len(marker), Len(line) - Len(markerEnd), Len(line))}
                  ELSE {})

\* The slice expressions one iteration of the loop of findFileMarker evaluates:
\* data[i:] (twice when no marker starts at i) and data[:i] when it returns a marker.
findFileMarkerSlices(data, i) ==
    {sliceExpr(i, Len(data), Len(data))}
        \cup isMarkerSlices(SliceFrom(data, i))
        \cup (IF Len(isMarker(SliceFrom(data, i)).name) # 0
              THEN {sliceExpr(0, i, Len(data))}
              ELSE {})

\* i += j, which positions the offset at the newline before the possible marker.
nextOffset_AtNewline(i, j) == i + j

\* i += j + 1
nextOffset(i, j) == i + j + 1

InitScan ==
    /\ input \in ScanInputs
    /\ a = Nil
    /\ origin = "none"
    /\ edited = FALSE
    /\ prev = Nil
    /\ op = Start
    /\ err = <<>>
    /\ steps = 0
    /\ m = mapNil
    /\ scan = [NoScan EXCEPT !.pc = "start"]

\* Parse up to its first call of findFileMarker: the two checks and the
\* replacement of CR LF.
ScanStart ==
    /\ scan.pc = "start"
    /\ scan' = IF Len(input) = 0 \/ ~bytesContains(input, marker)
               THEN [scan EXCEPT !.pc = "done", !.failed = TRUE]
               ELSE [scan EXCEPT !.pc = "scan",
                                 !.data = Bytes(ReplaceAll(input, <<"\r", "\n">>, <<"\n">>))]
    /\ UNCHANGED <<input, a, origin, edited, prev, op, err, steps, m>>

\* What one iteration of the loop of findFileMarker computes at offset i:
\* name, after = isMarker(data[i:]) and j := bytes.Index(data[i:], newlineMarker).
iteration(data, i) ==
    [mk |-> isMarker(SliceFrom(data, i)),
     j |-> Index(SliceFrom(data, i), newlineMarker),
     line |-> Slice(SliceFrom(data, i), 0, IndexByte(SliceFrom(data, i), "\n")),
     slices |-> findFileMarkerSlices(data, i)]

\* An iteration of findFileMarker that finds a marker at i and returns; Parse
\* then fails (first call, nothing after the marker line) or calls
\* findFileMarker on what follows the marker line.
ScanFound ==
    /\ scan.pc = "scan"
    /\ \E it \in {iteration(scan.data.b, scan.i)} :
          /\ Len(it.mk.name) # 0
          /\ scan' = IF scan.calls = 0 /\ it.mk.after.nil
                     THEN [scan EXCEPT !.pc = "done", !.failed = TRUE, !.calls = 1,
                              !.slices = it.slices]
                     ELSE [scan EXCEPT !.data = it.mk.after, !.i = 0, !.calls = @ + 1,
                              !.names = Append(@, it.mk.name),
                              !.slices = it.slices]
    /\ UNCHANGED <<input, a, origin, edited, prev, op, err, steps, m>>

\* An iteration that finds no marker at i but a later "\n-- ": i += j + 1.
ScanAdvance ==
    /\ scan.pc = "scan"
    /\ \E it \in {iteration(scan.data.b, scan.i)} :
          /\ Len(it.mk.name) = 0
          /\ it.j >= 0
          /\ scan' = [scan EXCEPT !.i = nextOffset(scan.i, it.j),
                         !.skipped = @ \cup {it.line},
                         !.slices = it.slices]
    /\ UNCHANGED <<input, a, origin, edited, prev, op, err, steps, m>>

\* An iteration that finds no marker at i and no later "\n-- ": findFileMarker
\* returns no name, and Parse fails (first call) or leaves its loop.
ScanExhausted ==
    /\ scan.pc = "scan"
    /\ \E it \in {iteration(scan.data.b, scan.i)} :
          /\ Len(it.mk.name) = 0
          /\ it.j < 0
          /\ scan' = [scan EXCEPT !.pc = "done", !.failed = (scan.calls = 0),
                         !.calls = @ + 1, !.slices = it.slices]
    /\ UNCHANGED <<input, a, origin, edited, prev, op, err, steps, m>>

NextScan ==
    \/ ScanStart
    \/ ScanFound
    \/ ScanAdvance
    \/ ScanExhausted

\* Parse runs in the caller's goroutine: an iteration that can be taken is taken.
SpecScan == InitScan /\ [][NextScan]_vars /\ WF_vars(NextScan)

(***************************************************************************)
(* Vocabulary of the properties.                                           *)
(***************************************************************************)
\* The offsets at which a line of text starts.
lineStarts(text) == {i \in 0..(Len(text) - 1) : i = 0 \/ text[i] = "\n"}

\* The line of text that starts at offset i, without its newline.
lineAt(text, i) ==
    LET rest == SliceFrom(text, i)
        j == IndexByte(rest, "\n")
    IN IF j < 0 THEN rest ELSE Slice(rest, 0, j)

\* A marker line with a non-blank name: "-- " name " --".
isMarkerLine(line) ==
    /\ Len(line) >= 6
    /\ SubSeq(line, 1, 3) = <<"-", "-", " ">>
    /\ SubSeq(line, Len(line) - 2, Len(line)) = <<" ", "-", "-">>
    /\ \E k \in 4..(Len(line) - 3) : line[k] \notin Whitespace

hasMarkerLine(text) == \E i \in lineStarts(text) : isMarkerLine(lineAt(text, i))

hasCRLF(text) == \E i \in 1..(Len(text) - 1) : text[i] = "\r" /\ text[i + 1] = "\n"

\* The (name, contents) pairs of an archive.
Entries(ar) == {<<ar.files[i].name, ar.files[i].data>> : i \in 1..Len(ar.files)}

SameContent(x, y) == x.comment = y.comment /\ Entries(x) = Entries(y)

\* An archive the txtar syntax can express: at least one file, names that are
\* not empty and hold no newline, no marker line and no CR LF inside the comment
\* or a file's contents.
Expressible(ar) ==
    /\ ~ar.nil
    /\ Len(ar.files) >= 1
    /\ ~hasMarkerLine(ar.comment)
    /\ ~hasCRLF(ar.comment)
    /\ \A i \in 1..Len(ar.files) :
        /\ Len(ar.files[i].name) # 0
        /\ \A k \in 1..Len(ar.files[i].name) : ar.files[i].name[k] # "\n"
        /\ ~hasMarkerLine(ar.files[i].data)
        /\ ~hasCRLF(ar.files[i].data)

\* The entries of an ordered map, in ascending order of name.
sortedFiles(files) ==
    LET names == sortNames({files[i].name : i \in 1..Len(files)})
    IN [k \in 1..Len(names) |->
          files[CHOOSE i \in 1..Len(files) : files[i].name = names[k]]]

(***************************************************************************)
(* C1..C10.                                                                *)
(***************************************************************************)

\* C1 (as claimed): for every archive built by New followed by Write and Delete
\* calls, Parse(a.String()) succeeds and returns an archive Equal to it.
C1_RoundTrip ==
    (op.call = "Reparse" /\ op.from = "New")
        => (err = <<>> /\ Equal(prev, a) /\ SameContent(prev, a))

\* C1 (amended): for every archive built by New followed by Write and Delete
\* calls that has at least one file, whose names are not empty and hold no
\* newline, and whose comment and contents hold no marker line and no CR LF,
\* Parse(a.String()) succeeds and returns an archive Equal to it: same comment,
\* same names, same contents per name.
C1_RoundTripExpressible ==
    (op.call = "Reparse" /\ op.from = "New" /\ Expressible(prev))
        => (err = <<>> /\ Equal(prev, a) /\ SameContent(prev, a))

C1_Witness ==
    /\ op.call = "Reparse"
    /\ op.from = "New"
    /\ op.edited
    /\ Expressible(prev)
    /\ Len(prev.comment) # 0
    /\ Size(prev) >= 1
    /\ err = <<>>
    /\ Equal(prev, a)

\* C2: whenever Parse succeeds with archive a, Parse(a.String()) succeeds with
\* an archive of the same Comment, Size and String.
C2_ReparseStable ==
    (op.call = "Reparse" /\ op.from = "Parse" /\ ~op.edited /\ ~prev.nil)
        => /\ err = <<>>
           /\ Comment(a) = Comment(prev)
           /\ Size(a) = Size(prev)
           /\ String(a) = String(prev)

\* C3: String writes the file sections in ascending order of file name, whatever
\* the order of insertion.
C3_AscendingOrder ==
    ~a.nil => String(a) = String([a EXCEPT !.files = sortedFiles(a.files)])

\* C4: the archive New returns without options has String() = "", and Parse of
\* that (zero-byte) text fails with the empty-archive error and a nil archive.
C4_EmptyArchive ==
    /\ (op.call = "New" /\ Size(a) = 0 /\ Len(Comment(a)) = 0) => String(a) = <<>>
    /\ (op.call \in {"Parse", "Reparse"} /\ op.contents = <<>>)
          => (a = Nil /\ err = <<ErrEmpty>>)

C4_Witness ==
    /\ op.call = "Reparse"
    /\ op.from = "New"
    /\ ~op.edited
    /\ ~prev.nil
    /\ String(prev) = <<>>
    /\ op.contents = <<>>
    /\ a = Nil
    /\ err = <<ErrEmpty>>

\* C5 (as claimed): Parse of a non-empty input without a marker line fails with
\* the no-files error and returns no archive.
C5_NoMarkerNoFiles ==
    (op.call = "Parse" /\ Len(op.contents) # 0
        /\ ~hasMarkerLine(ReplaceAll(op.contents, <<"\r", "\n">>, <<"\n">>)))
        => (a = Nil /\ err = <<ErrNoFiles>>)

\* C5 (amended): Parse of a non-empty input without a marker line (a line
\* "-- name --" with a non-blank name, after CR LF is read as LF) fails and
\* returns no archive: with the no-files error when the input does not hold the
\* bytes "-- ", with the unterminated-file-marker error when it does.
C5_NoMarkerFails ==
    (op.call = "Parse" /\ Len(op.contents) # 0
        /\ ~hasMarkerLine(ReplaceAll(op.contents, <<"\r", "\n">>, <<"\n">>)))
        => /\ a = Nil
           /\ err = IF \E i \in 1..(Len(op.contents) - 2) :
                          SubSeq(op.contents, i, i + 2) = <<"-", "-", " ">>
                    THEN <<ErrUnterminated>>
                    ELSE <<ErrNoFiles>>

C5_Witness ==
    /\ op.call = "Parse"
    /\ Len(op.contents) # 0
    /\ ~hasMarkerLine(ReplaceAll(op.contents, <<"\r", "\n">>, <<"\n">>))
    /\ \E i \in 1..(Len(op.contents) - 6) :
          SubSeq(op.contents, i, i + 6) = <<"-", "-", " ", "a", " ", "-", "-">>
    /\ a = Nil
    /\ err = <<ErrUnterminated>>

\* A text without whitespace at either end.
noSurroundingSpace(text) ==
    Len(text) = 0 \/ (text[1] \notin Whitespace /\ text[Len(text)] \notin Whitespace)

\* The text with the whitespace at both ends removed is core: text is core
\* between two runs of whitespace.
isCoreOf(core, text) ==
    /\ noSurroundingSpace(core)
    /\ \E i \in 1..(Len(text) + 1) :
          /\ i + Len(core) - 1 <= Len(text)
          /\ SubSeq(text, i, i + Len(core) - 1) = core
          /\ \A k \in 1..Len(text) :
                (k < i \/ k >= i + Len(core)) => text[k] \in Whitespace

\* Stored contents: empty, or without leading whitespace and ending in exactly one
\* newline that no other whitespace precedes.
normalForm(data) ==
    \/ Len(data) = 0
    \/ /\ Len(data) >= 2
       /\ data[1] \notin Whitespace
       /\ data[Len(data)] = "\n"
       /\ data[Len(data) - 1] \notin Whitespace

\* Two names that differ only by whitespace at their ends.
sameName(n1, n2) == \E core \in {TrimSpace(n1)} : isCoreOf(core, n1) /\ isCoreOf(core, n2)

\* C6: every stored contents is in normal form; after Write(name, contents), Read of
\* the trimmed name returns the contents trimmed plus one newline, or "" when the
\* contents are all whitespace.
C6_ContentNormalForm ==
    /\ ~a.nil => \A i \in 1..Len(a.files) : normalForm(a.files[i].data)
    /\ (op.call = "Write" /\ ~a.nil) =>
          \E i \in 1..Len(a.files) :
             /\ isCoreOf(a.files[i].name, op.name)
             /\ Read(a, a.files[i].name) = [value |-> a.files[i].data, ok |-> TRUE]
             /\ IF \A k \in 1..Len(op.contents) : op.contents[k] \in Whitespace
                THEN a.files[i].data = <<>>
                ELSE /\ a.files[i].data[Len(a.files[i].data)] = "\n"
                     /\ isCoreOf(SubSeq(a.files[i].data, 1, Len(a.files[i].data) - 1),
                                 op.contents)

C6_Witness ==
    /\ op.call = "Write"
    /\ op.from = "Parse"
    /\ op.name = <<" ", "a", "\n">>
    /\ op.contents = <<" ", "x", " ", "\n">>
    /\ Read(a, <<"a">>) = [value |-> <<"x", "\n">>, ok |-> TRUE]

\* C7: the stored comment never has leading or trailing whitespace, whether
\* WithComment (passed to New) or Parse assigned it.
C7_CommentTrimmed ==
    /\ noSurroundingSpace(Comment(a))
    /\ ~m.nil => noSurroundingSpace(m.comment)

\* The pairs of different names, among those the calls are explored with, that
\* differ only by whitespace at their ends.
sameNamePairs ==
    {pair \in NameArgs \X NameArgs : pair[1] # pair[2] /\ sameName(pair[1], pair[2])}

\* C8: stored names have no whitespace at either end and are pairwise distinct, and
\* Has, Read, Write and Delete do the same for two names that differ only by
\* whitespace at their ends.
C8_NameTrimming ==
    /\ ~a.nil =>
          /\ \A i \in 1..Len(a.files) : noSurroundingSpace(a.files[i].name)
          /\ \A i, j \in 1..Len(a.files) : a.files[i].name = a.files[j].name => i = j
    /\ \A pair \in sameNamePairs :
          /\ Has(a, pair[1]) = Has(a, pair[2])
          /\ Read(a, pair[1]) = Read(a, pair[2])
          /\ Delete(a, pair[1]) = Delete(a, pair[2])
          /\ \A contents \in ContentArgs :
                Write(a, pair[1], contents) = Write(a, pair[2], contents)

C8_Witness ==
    /\ op.call = "Has"
    /\ op.from = "Parse"
    /\ op.name = <<" ", "a", "\n">>
    /\ op.ok
    /\ Has(a, <<"a">>)
    /\ \E i \in 1..Len(a.files) : a.files[i].name = <<"b">>

\* C9: on a non-nil archive Write(name, c) returns nil; the trimmed name then holds
\* the normalised c; Size is unchanged when the name was present and one more
\* otherwise; the comment and every other entry are unchanged; writing the same
\* pair again changes nothing.
C9_WriteUpsert ==
    (op.call = "Write" /\ ~prev.nil) =>
        LET present == \E i \in 1..Len(prev.files) : isCoreOf(prev.files[i].name, op.name)
        IN /\ err = <<>>
           /\ ~a.nil
           /\ Size(a) = Size(prev) + (IF present THEN 0 ELSE 1)
           /\ a.comment = prev.comment
           /\ \E e \in Entries(a) :
                 /\ isCoreOf(e[1], op.name)
                 /\ normalForm(e[2])
                 /\ \/ Len(e[2]) = 0 /\ \A k \in 1..Len(op.contents) :
                                            op.contents[k] \in Whitespace
                    \/ Len(e[2]) # 0 /\ isCoreOf(SubSeq(e[2], 1, Len(e[2]) - 1), op.contents)
                 /\ Entries(a) \ {e} = {p \in Entries(prev) : p[1] # e[1]}
           /\ Write(a, op.name, op.contents) = [a |-> a, err |-> <<>>]

C9_Witness ==
    /\ op.call = "Write"
    /\ ~prev.nil
    /\ Size(a) = 2
    /\ Size(prev) = 2
    /\ Entries(a) # Entries(prev)

\* C10: Add(name, c) returns an error and leaves the archive as it was when the
\* trimmed name is present; otherwise it returns nil and stores the trimmed contents
\* under the trimmed name, leaving the other entries and the comment as they were.
C10_AddStrictInsert ==
    op.call = "Add" =>
        LET present == \E n \in DOMAIN prev.files : isCoreOf(n, op.name)
        IN IF present
           THEN err # <<>> /\ m = prev
           ELSE /\ err = <<>>
                /\ m.comment = prev.comment
                /\ \E n \in DOMAIN m.files :
                      /\ isCoreOf(n, op.name)
                      /\ isCoreOf(m.files[n], op.contents)
                      /\ DOMAIN m.files = DOMAIN prev.files \cup {n}
                      /\ \A k \in DOMAIN prev.files : m.files[k] = prev.files[k]

C10_Witness ==
    /\ op.call = "Add"
    /\ err = <<ErrExists>>
    /\ op.name = <<" ", "a", "\n">>
    /\ <<"a">> \in DOMAIN prev.files
    /\ ~isCoreOf(prev.files[<<"a">>], op.contents)
    /\ m = prev

(***************************************************************************)
(* C11..C20.                                                               *)
(***************************************************************************)

\* C11: on a non-nil archive Delete(name) removes exactly the entry of the trimmed
\* name: afterwards Has(name) is false, Size is one less if the name was present
\* and the same otherwise, the comment and every other entry are unchanged, and
\* a later Write of the same name succeeds and stores the file.
C11_DeleteExact ==
    (op.call = "Delete" /\ ~prev.nil) =>
        LET gone == {p \in Entries(prev) : isCoreOf(p[1], op.name)}
        IN /\ err = <<>>
           /\ ~a.nil
           /\ ~Has(a, op.name)
           /\ Cardinality(gone) <= 1
           /\ Size(a) = Size(prev) - Cardinality(gone)
           /\ a.comment = prev.comment
           /\ Entries(a) = Entries(prev) \ gone
           /\ (gone = {}) => a.files = prev.files
           /\ \A contents \in ContentArgs :
                 LET w == Write(a, op.name, contents)
                 IN w.err = <<>> /\ Has(w.a, op.name) /\ Size(w.a) = Size(a) + 1

C11_Witness ==
    /\ op.call = "Delete"
    /\ op.name = <<" ", "a", "\n">>
    /\ Size(prev) = 2
    /\ Has(prev, <<"a">>)
    /\ Size(a) = 1
    /\ Has(a, <<"b">>)
    /\ ~Has(a, <<"a">>)

\* The accessors: they take no contents and return no error.
Accessors == {"Comment", "Has", "Read", "Size", "String", "Files"}

\* The archives a caller can hold without any call on them: the nil handle,
\* &Archive{} and the result of New().
FreshArchives == {Nil, ZeroArchive, NewArchive}

\* C12: Comment, Has, Read, Size, String and Files leave the comment and the
\* name-to-content mapping of the receiver as they were; Read of an absent name
\* reports not-found; and every operation gives, on the receiver after the
\* accessor, the result it gives on the receiver before it.
C12_AccessorsReadOnly ==
    (op.call \in Accessors) =>
        /\ Comment(a) = Comment(prev)
        /\ Files(a) = Files(prev)
        /\ (op.call = "Read" /\ ~Has(prev, op.name)) => (~op.ok /\ op.value = <<>>)
        /\ Size(a) = Size(prev)
        /\ String(a) = String(prev)
        /\ \A n \in LookupArgs :
              /\ Has(a, n) = Has(prev, n)
              /\ Read(a, n) = Read(prev, n)
              /\ Delete(a, n) = Delete(prev, n)
              /\ \A contents \in ContentArgs : Write(a, n, contents) = Write(prev, n, contents)
        /\ \A other \in FreshArchives :
              /\ Equal(a, other) = Equal(prev, other)
              /\ Equal(other, a) = Equal(other, prev)

\* The names Files yields.
fileNames(ar) == {Files(ar)[i].name : i \in 1..Len(Files(ar))}

\* C13 (as claimed): Size is the number of distinct stored names, Files yields one
\* pair per stored name, and for every name n, Has(n) iff Read(n) reports found
\* iff n is among the names Files yields, Read(n) returning the contents Files
\* yields for n.
C13_ConsistentView ==
    /\ Size(a) = Cardinality(fileNames(a))
    /\ Len(Files(a)) = Cardinality(fileNames(a))
    /\ \A n \in NameArgs :
          /\ Has(a, n) = Read(a, n).ok
          /\ Has(a, n) = (n \in fileNames(a))
          /\ \A i \in 1..Len(Files(a)) :
                Files(a)[i].name = n => Read(a, n).value = Files(a)[i].data

\* C13 (amended): Size is the number of distinct stored names, Files yields one
\* pair per stored name, and for every name n, Has(n) iff Read(n) reports found
\* iff n, with the whitespace at its ends removed, is among the names Files
\* yields, Read(n) returning the contents Files yields for that name.
C13_ConsistentViewTrimmed ==
    /\ Size(a) = Cardinality(fileNames(a))
    /\ Len(Files(a)) = Cardinality(fileNames(a))
    /\ \A n \in NameArgs :
          /\ Has(a, n) = Read(a, n).ok
          /\ Has(a, n) = (\E stored \in fileNames(a) : isCoreOf(stored, n))
          /\ \A i \in 1..Len(Files(a)) :
                isCoreOf(Files(a)[i].name, n) => Read(a, n).value = Files(a)[i].data

C13_Witness ==
    /\ op.call = "Write"
    /\ op.from = "Parse"
    /\ Size(a) = 2
    /\ Has(a, <<" ", "a", "\n">>)
    /\ Read(a, <<" ", "a", "\n">>).ok
    /\ <<" ", "a", "\n">> \notin fileNames(a)
    /\ <<"a">> \in fileNames(a)

\* Archives to compare with: the fresh ones and those New builds from one option.
ReferenceArchives == FreshArchives \cup {New(<<option>>).a : option \in Options}

\* Both nil, or both non-nil with the same comment and the same name-to-content
\* mapping.
sameArchive(x, y) ==
    \/ x.nil /\ y.nil
    \/ ~x.nil /\ ~y.nil /\ x.comment = y.comment /\ Entries(x) = Entries(y)

\* C14: Equal(x, y) is true iff both are nil, or both are non-nil with the same
\* comment and the same name-to-content mapping, for the archive held, the
\* archive it was before the last call, zero-value archives and archives New
\* returns.
C14_EqualIff ==
    \A other \in ReferenceArchives \cup {prev} :
        /\ Equal(a, other) = sameArchive(a, other)
        /\ Equal(other, a) = sameArchive(other, a)

\* C15: on a nil handle Comment returns "", Has false, Read ("", not found),
\* Size 0, String "", Files yields nothing, Delete does nothing and Write returns
\* an error and stores nothing; the handle stays nil.
C15_NilSafe ==
    /\ a.nil =>
          /\ Comment(a) = <<>>
          /\ Size(a) = 0
          /\ String(a) = <<>>
          /\ Files(a) = <<>>
          /\ \A n \in NameArgs :
                /\ ~Has(a, n)
                /\ Read(a, n) = [value |-> <<>>, ok |-> FALSE]
                /\ Delete(a, n) = a
                /\ \A contents \in ContentArgs :
                      Write(a, n, contents).a = a /\ Write(a, n, contents).err # <<>>
    /\ (prev.nil /\ op.call \in Accessors \cup {"Delete", "Write"}) =>
          /\ a = Nil
          /\ ~op.ok
          /\ op.value = <<>>
          /\ (err # <<>>) = (op.call = "Write")

C15_Witness ==
    /\ op.call = "Write"
    /\ op.from = "Parse"
    /\ prev.nil
    /\ a = Nil
    /\ err = <<ErrWriteNil>>

\* The options of a list that fail: a WithFile whose name, trimmed, is that of
\* an earlier WithFile of the list.
failingOptions(options) ==
    {i \in 1..Len(options) :
        /\ options[i].kind = "WithFile"
        /\ \E j \in 1..(i - 1) :
              /\ options[j].kind = "WithFile"
              /\ sameName(options[j].name, options[i].name)}

\* C16: New (first revision) returns a nil archive and an error iff some option
\* failed, the error joining one error per failing option; otherwise it returns
\* nil error and an archive with every option applied: the comment of the last
\* WithComment, and one file per WithFile under its trimmed name.
C16_NewAggregates ==
    op.call = "New" =>
        LET options == op.contents
            failing == failingOptions(options)
            comments == {i \in 1..Len(options) : options[i].kind = "WithComment"}
            files == {i \in 1..Len(options) : options[i].kind = "WithFile"}
        IN /\ m.nil = (failing # {})
           /\ Len(err) = Cardinality(failing)
           /\ \A i \in 1..Len(err) : err[i] = ErrExists
           /\ (failing = {}) =>
                 /\ IF comments = {} THEN m.comment = <<>>
                    ELSE \E i \in comments :
                            /\ \A k \in comments : k <= i
                            /\ m.comment = options[i].contents
                 /\ \A i \in files :
                       \E n \in DOMAIN m.files :
                          /\ isCoreOf(n, options[i].name)
                          /\ isCoreOf(m.files[n], options[i].contents)
                 /\ \A n \in DOMAIN m.files : \E i \in files : isCoreOf(n, options[i].name)

C16_Witness ==
    /\ op.call = "New"
    /\ Len(op.contents) = 3
    /\ Cardinality(failingOptions(op.contents)) = 2
    /\ m.nil
    /\ err = <<ErrExists, ErrExists>>

\* C17: Parse returns either a non-nil archive and a nil error, or a nil archive
\* and an error, never an archive together with an error.
C17_ParseTwoOutcomes ==
    (op.call \in {"Parse", "Reparse"}) =>
        \/ ~a.nil /\ a.hasMap /\ err = <<>>
        \/ a = Nil /\ Len(err) = 1 /\ err[1] \in {ErrEmpty, ErrNoFiles, ErrUnterminated}

C17_Witness ==
    /\ op.call = "Parse"
    /\ hasMarkerLine(op.contents)
    /\ Len(TrimSpace(findFileMarker(Bytes(op.contents)).before)) # 0
    /\ a = Nil
    /\ err = <<ErrUnterminated>>

\* CR LF read as LF.
normalised(text) == ReplaceAll(text, <<"\r", "\n">>, <<"\n">>)

\* The offsets at which the marker lines of a text start.
markerStarts(text) == {i \in lineStarts(text) : isMarkerLine(lineAt(text, i))}

\* The name field of a marker line: what stands between "-- " and " --".
nameField(line) == SubSeq(line, 4, Len(line) - 3)

\* The text between the marker line that starts at offset i and the next marker
\* line, or the end of the text.
sectionAfter(text, i) ==
    LET from == i + Len(lineAt(text, i)) + 1
        later == {j \in markerStarts(text) : j > i}
        to == IF later = {} THEN Len(text)
              ELSE CHOOSE j \in later : \A k \in later : j <= k
    IN IF from >= to THEN <<>> ELSE Slice(text, from, to)

\* Contents as stored for a section: its text without the whitespace at its ends,
\* and one newline when that is not empty.
storedFor(data, text) ==
    IF \A k \in 1..Len(text) : text[k] \in Whitespace
    THEN data = <<>>
    ELSE /\ Len(data) >= 2
         /\ data[Len(data)] = "\n"
         /\ isCoreOf(SubSeq(data, 1, Len(data) - 1), text)

\* C18: when the input (CR LF read as LF) holds marker lines, Parse returns an
\* archive whose comment is the trimmed text before the first of them and which
\* maps the name of each to the trimmed text that follows it up to the next
\* marker line or the end, plus one newline when that text is not empty (the
\* last section of a name when the name occurs twice); it holds no other name.
C18_ParseResult ==
    (op.call = "Parse" /\ markerStarts(normalised(op.contents)) # {}) =>
        LET text == normalised(op.contents)
            starts == markerStarts(text)
            first == CHOOSE i \in starts : \A k \in starts : i <= k
        IN /\ err = <<>>
           /\ ~a.nil
           /\ isCoreOf(a.comment, Slice(text, 0, first))
           /\ \A i \in starts :
                 \E n \in fileNames(a) :
                    /\ isCoreOf(n, nameField(lineAt(text, i)))
                    /\ (\A j \in starts :
                           (j > i) => ~isCoreOf(n, nameField(lineAt(text, j))))
                          => storedFor(Read(a, n).value, sectionAfter(text, i))
           /\ \A n \in fileNames(a) :
                 \E i \in starts : isCoreOf(n, nameField(lineAt(text, i)))

\* Two outcomes of Parse that agree: both failed, or both succeeded with Equal
\* archives.
sameOutcome(x, xerr, y, yerr) ==
    \/ xerr # <<>> /\ yerr # <<>>
    \/ xerr = <<>> /\ yerr = <<>> /\ Equal(x, y) /\ sameArchive(x, y)

hasCRCRLF(text) ==
    \E i \in 1..(Len(text) - 2) :
        text[i] = "\r" /\ text[i + 1] = "\r" /\ text[i + 2] = "\n"

\* C19 (as claimed): for every input x, Parse(x) and Parse(x with every CR LF
\* replaced by LF) both fail or both succeed with Equal archives.
C19_CRLFInsensitive ==
    (op.call \in {"Parse", "Reparse"}) =>
        LET r == Parse(normalised(op.contents))
        IN sameOutcome(a, err, r.a, r.err)

\* C19 (amended): for every input x that does not hold CR CR LF, Parse(x) and
\* Parse(x with every CR LF replaced by LF) both fail or both succeed with Equal
\* archives.
C19_CRLFInsensitiveOnce ==
    (op.call \in {"Parse", "Reparse"} /\ ~hasCRCRLF(op.contents)) =>
        LET r == Parse(normalised(op.contents))
        IN sameOutcome(a, err, r.a, r.err)

C19_Witness ==
    /\ op.call = "Parse"
    /\ hasCRLF(op.contents)
    /\ ~hasCRCRLF(op.contents)
    /\ err = <<>>
    /\ Size(a) = 2
    /\ Equal(a, Parse(normalised(op.contents)).a)

\* C20: for every non-empty input x that does not end in a newline, Parse(x) and
\* Parse(x + "\n") both fail with the same error, or both succeed with Equal
\* archives; so also when the last line of x is a marker line.
C20_MissingFinalNewline ==
    (op.call \in {"Parse", "Reparse"} /\ Len(op.contents) # 0
        /\ op.contents[Len(op.contents)] # "\n") =>
        LET r == Parse(op.contents \o <<"\n">>)
        IN \/ err # <<>> /\ r.err = err
           \/ err = <<>> /\ r.err = <<>> /\ Equal(a, r.a) /\ sameArchive(a, r.a)

(***************************************************************************)
(* C21..C30.                                                               *)
(***************************************************************************)

\* The layout of a serialised archive: the comment and one newline when the
\* comment is not empty, one more newline when files follow it, then for each
\* section the line "-- name --" and the body of the section.
layout(comment, sections) ==
    LET body[k \in 0..Len(sections)] ==
            IF k = 0 THEN <<>>
            ELSE body[k - 1] \o <<"-", "-", " ">> \o sections[k].name
                    \o <<" ", "-", "-", "\n">> \o sections[k].data
    IN (IF comment = <<>> THEN <<>>
        ELSE IF Len(sections) = 0 THEN comment \o <<"\n">>
        ELSE comment \o <<"\n", "\n">>)
       \o body[Len(sections)]

endsWithNewline(text) == Len(text) = 0 \/ text[Len(text)] = "\n"

\* The files of a map-backed archive in the order its String writes them, each
\* with its stored contents.
mapSections(ar) ==
    LET names == sortNames(DOMAIN ar.files)
    IN [k \in 1..Len(names) |-> [name |-> names[k], data |-> ar.files[names[k]]]]

\* The same, each with its stored contents and one newline.
mapSectionsTerminated(ar) ==
    LET names == sortNames(DOMAIN ar.files)
    IN [k \in 1..Len(names) |->
          [name |-> names[k], data |-> ar.files[names[k]] \o <<"\n">>]]

\* C21 (as claimed): String returns the comment and a newline when the comment
\* is not empty, a blank line when files follow a comment, then per file the
\* line "-- name --" and the stored contents of the file, and nothing else; a
\* result that is not empty ends with a newline.
C21_Layout ==
    /\ ~a.nil =>
          /\ String(a) = layout(a.comment, Files(a))
          /\ endsWithNewline(String(a))
    /\ ~m.nil =>
          /\ mapString(m) = layout(m.comment, mapSections(m))
          /\ endsWithNewline(mapString(m))

\* C21 (amended): as claimed for the ordered-map revision; in the map-backed
\* revision, whose stored contents have no final newline, the stored contents
\* of each file are followed by one newline.
C21_LayoutByRevision ==
    /\ ~a.nil =>
          /\ String(a) = layout(a.comment, Files(a))
          /\ endsWithNewline(String(a))
    /\ ~m.nil =>
          /\ mapString(m) = layout(m.comment, mapSectionsTerminated(m))
          /\ endsWithNewline(mapString(m))

C21_Witness ==
    /\ op.call = "New"
    /\ ~m.nil
    /\ Len(m.comment) # 0
    /\ Cardinality(DOMAIN m.files) = 2
    /\ \E n \in DOMAIN m.files : m.files[n] = <<>>
    /\ \E n \in DOMAIN m.files : m.files[n] # <<>>

\* The name fields of the marker lines of a text, in the order of the lines.
markerNames(text) ==
    LET starts == markerStarts(text)
        nth[k \in 1..Cardinality(starts)] ==
            CHOOSE i \in starts : Cardinality({j \in starts : j < i}) = k - 1
    IN [k \in 1..Cardinality(starts) |-> nameField(lineAt(text, nth[k]))]

isTrimmedMarkerLine(line) ==
    \E i \in 1..Len(line), j \in 1..Len(line) :
        /\ j >= i + 5
        /\ isCoreOf(SubSeq(line, i, j), line)
        /\ SubSeq(line, i, i + 2) = <<"-", "-", " ">>
        /\ SubSeq(line, j - 2, j) = <<" ", "-", "-">>

trimmedMarkerStarts(text) ==
    {i \in lineStarts(text) : isTrimmedMarkerLine(lineAt(text, i))}

\* What findFileMarker returns on the text that starts at offset from, when the
\* marker lines of the text are those that start at the offsets in starts.
scansTo(text, from, starts) ==
    LET r == findFileMarker(Bytes(SliceFrom(text, from)))
        ahead == {i \in starts : i >= from}
    IN IF ahead = {}
       THEN r.name = <<>> /\ r.before = SliceFrom(text, from) /\ r.after.nil
       ELSE LET first == CHOOSE i \in ahead : \A k \in ahead : i <= k
                line == lineAt(text, first)
                end == first + Len(line)
            IN /\ r.before = Slice(text, from, first)
               /\ \E i \in 1..Len(line), j \in 1..Len(line) :
                     /\ isCoreOf(SubSeq(line, i, j), line)
                     /\ isCoreOf(r.name, SubSeq(line, i + 3, j - 3))
               /\ r.after = IF end < Len(text) THEN Bytes(SliceFrom(text, end + 1))
                            ELSE NilBytes

\* C23 (as claimed): scanning from the start of any line of the input (CR LF read
\* as LF), findFileMarker stops at the first line whose content, without the
\* whitespace at its ends, starts with "-- " and ends with " --", and returns
\* the trimmed text between them as the name; it finds no marker when there is
\* no such line.
C23_MarkerTrimmedLine ==
    (op.call = "Parse" /\ Len(op.contents) # 0) =>
        LET text == normalised(op.contents)
        IN \A from \in lineStarts(text) :
              scansTo(text, from, trimmedMarkerStarts(text))

\* C23 (amended): scanning from the start of any line of the input (CR LF read
\* as LF), findFileMarker stops at the first line that itself, untrimmed,
\* starts with "-- " and ends with " --" and has a name that is not blank
\* between them, and returns that name trimmed; it finds no marker when there
\* is no such line. A "-- name --" inside a line, or after leading whitespace,
\* is no marker.
C23_MarkerLine ==
    (op.call = "Parse" /\ Len(op.contents) # 0) =>
        LET text == normalised(op.contents)
        IN \A from \in lineStarts(text) :
              scansTo(text, from, markerStarts(text))

C23_Witness ==
    /\ op.call = "Parse"
    /\ trimmedMarkerStarts(op.contents) # markerStarts(op.contents)
    /\ err = <<>>
    /\ a.comment = MarkerLine(<<"b">>)
    /\ fileNames(a) = {<<"a">>}

\* A line "-- " + whitespace + " --": a marker line but for its name, which is
\* blank.
isBlankNameLine(line) ==
    /\ Len(line) >= 6
    /\ SubSeq(line, 1, 3) = <<"-", "-", " ">>
    /\ SubSeq(line, Len(line) - 2, Len(line)) = <<" ", "-", "-">>
    /\ \A k \in 4..(Len(line) - 3) : line[k] \in Whitespace

\* The offsets at which the lines with a blank name, and the lines "-- --",
\* start.
blankNameStarts(text) ==
    {i \in lineStarts(text) :
        isBlankNameLine(lineAt(text, i)) \/ lineAt(text, i) = <<"-", "-", " ", "-", "-">>}

\* The texts an archive stores: its comment and the contents of its files.
storedTexts(ar) == {ar.comment} \cup {Files(ar)[i].data : i \in 1..Len(Files(ar))}

equalTrimmed(x, y) ==
    \E i \in 1..(Len(x) + 1), j \in 0..Len(x) :
        /\ j >= i - 1
        /\ isCoreOf(SubSeq(x, i, j), x)
        /\ isCoreOf(SubSeq(x, i, j), y)

\* What the original parser returns agrees with the archive: the comment up to
\* trimming, as many files as Size(), each with a name Has reports and contents
\* equal up to trimming.
agreesWithOriginal(ar, orig) ==
    /\ equalTrimmed(Comment(ar), orig.comment)
    /\ Len(orig.files) = Size(ar)
    /\ \A k \in 1..Len(orig.files) :
          /\ Has(ar, orig.files[k].name)
          /\ equalTrimmed(Read(ar, orig.files[k].name).value, orig.files[k].data)

\* C25 (as claimed): for every input on which Parse succeeds, the original
\* parser yields the same comment up to trimming, as many files as Size(), and
\* for each of its files a name Has reports, with contents equal up to trimming.
C25_Compat ==
    (op.call = "Parse" /\ err = <<>>) => agreesWithOriginal(a, origParse(op.contents))

\* C25 (amended): the same, for the inputs that hold no CR LF and in which the
\* original parser finds no two files of the same name.
C25_CompatDistinctNames ==
    (op.call = "Parse" /\ err = <<>> /\ ~hasCRLF(op.contents)) =>
        LET orig == origParse(op.contents)
        IN (\A k, l \in 1..Len(orig.files) :
               orig.files[k].name = orig.files[l].name => k = l)
              => agreesWithOriginal(a, orig)

C25_Witness ==
    /\ op.call = "Parse"
    /\ err = <<>>
    /\ ~hasCRLF(op.contents)
    /\ Size(a) = 2
    /\ Len(origParse(op.contents).files) = 2
    /\ \E k \in 1..2 :
          LET file == origParse(op.contents).files[k]
          IN /\ file.data # Read(a, file.name).value
             /\ equalTrimmed(Read(a, file.name).value, file.data)


(***************************************************************************)
(* C26: Parse terminates on every input.  An iteration of findFileMarker   *)
(* that does not return moves the offset forward by at least one byte, to  *)
(* the "-- " that follows a newline later in the data, so a line that      *)
(* begins with "-- " and is no marker is left behind; a call of            *)
(* findFileMarker in the loop of Parse works on data strictly shorter than *)
(* the call before it.                                                     *)
(***************************************************************************)
scanProgress ==
    (scan.pc = "scan" /\ scan'.pc = "scan") =>
        IF scan'.calls = scan.calls
        THEN /\ scan'.data = scan.data
             /\ scan'.i >= scan.i + 1
             /\ scan.data.b[scan'.i] = "\n"
             /\ HasPrefix(SliceFrom(scan.data.b, scan'.i), marker)
        ELSE /\ scan'.i = 0
             /\ Len(scan'.data.b) < Len(scan.data.b)

C26_Terminates == [][scanProgress]_vars /\ <>(scan.pc = "done")

\* Parse has ended with two files after the scan left the line "-- a" behind.
C26_Witness ==
    /\ scan.pc = "done"
    /\ ~scan.failed
    /\ Len(scan.names) >= 2
    /\ (marker \o <<"a">>) \in scan.skipped

(***************************************************************************)
(* C27: an archive Parse returns has at least one file.  Parse returns an  *)
(* archive exactly when it returns no error, the archive then has a Size   *)
(* of at least 1, and an input that holds the bytes "-- " and no marker    *)
(* line is rejected.                                                       *)
(***************************************************************************)
C27_ParsedHasFile ==
    op.call \in {"Parse", "Reparse"} =>
        /\ ~a.nil <=> err = <<>>
        /\ ~a.nil => Size(a) >= 1
        /\ (bytesContains(op.contents, marker) /\ ~hasMarkerLine(normalised(op.contents)))
               => (a.nil /\ err # <<>>)

\* Parse has rejected an input whose only "-- " begins a line that is no marker.
C27_Witness ==
    /\ op.call = "Parse"
    /\ bytesContains(op.contents, marker)
    /\ ~hasMarkerLine(normalised(op.contents))
    /\ \E i \in lineStarts(op.contents) : HasPrefix(lineAt(op.contents, i), marker)
    /\ a.nil
    /\ err = <<ErrUnterminated>>

\* The name Parse takes from the marker line that starts at i.
nameAt(text, i) == TrimSpace(nameField(lineAt(text, i)))

\* The marker lines of the text whose name another marker line has as well.
duplicateStarts(text) ==
    {i \in markerStarts(text) :
        \E j \in markerStarts(text) : j # i /\ nameAt(text, j) = nameAt(text, i)}

\* The last marker line with the name of the one at i.
lastStart(text, i) ==
    CHOOSE j \in markerStarts(text) :
        /\ nameAt(text, j) = nameAt(text, i)
        /\ \A k \in markerStarts(text) : nameAt(text, k) = nameAt(text, i) => k <= j

(***************************************************************************)
(* C28: when two or more marker lines of the input have the same trimmed   *)
(* name, Parse returns an archive and no error; the archive has one entry  *)
(* for that name, whose contents are the section after the last marker     *)
(* line with that name, and Size counts every name once.                   *)
(***************************************************************************)
C28_DuplicateNames ==
    (op.call = "Parse" /\ duplicateStarts(normalised(op.contents)) # {}) =>
        LET text == normalised(op.contents)
        IN /\ err = <<>>
           /\ ~a.nil
           /\ Size(a) = Cardinality({nameAt(text, i) : i \in markerStarts(text)})
           /\ \A i \in duplicateStarts(text) :
                 /\ Cardinality({k \in 1..Len(a.files) :
                                    a.files[k].name = nameAt(text, i)}) = 1
                 /\ Read(a, nameAt(text, i)).ok
                 /\ storedFor(Read(a, nameAt(text, i)).value,
                              sectionAfter(text, lastStart(text, i)))

\* Parse has read two sections named a, the first with contents and the last
\* without: the archive has the one file a, and it is empty.
C28_Witness ==
    /\ op.call = "Parse"
    /\ err = <<>>
    /\ Cardinality(duplicateStarts(normalised(op.contents))) = 2
    /\ sectionAfter(normalised(op.contents), 0) = <<"x", "\n">>
    /\ Size(a) = 1
    /\ Read(a, <<"a">>).value = <<>>

\* The receiver after Has, Read, Size, String or Files: each of them starts
\* with a.init() unless the receiver is nil.
accessed(ar) == IF ar.nil THEN ar ELSE init(ar)

(***************************************************************************)
(* C29: a call of Comment, Has, Read, Size, String or Files on an archive  *)
(* does not change what Equal returns for it and any other archive, on     *)
(* either side, whether the call is made on the one or on the other; the   *)
(* archives include nil, the zero value and what New returns.              *)
(***************************************************************************)
C29_EqualStable ==
    (op.call \in Accessors) =>
        \A b \in ReferenceArchives :
            /\ Equal(a, b) = Equal(prev, b)
            /\ Equal(b, a) = Equal(b, prev)
            /\ Equal(prev, accessed(b)) = Equal(prev, b)
            /\ Equal(accessed(b), prev) = Equal(b, prev)

\* A slice expression data[lo:hi] that Go evaluates without a panic.
inRange(s) == 0 <= s.lo /\ s.lo <= s.hi /\ s.hi <= s.len

(***************************************************************************)
(* C30: the scanner stays inside its data.  The offset i of findFileMarker *)
(* is never greater than len(data), every slice expression an iteration of *)
(* findFileMarker and its call of isMarker evaluate is in range, and the   *)
(* slice of the name, data[3 : len(data)-3], is taken from lines of at     *)
(* least 6 bytes only.                                                     *)
(***************************************************************************)
C30_IndexSafe ==
    /\ 0 <= scan.i
    /\ scan.i <= Len(scan.data.b)
    /\ \A s \in scan.slices :
          /\ inRange(s)
          /\ (s.lo = Len(marker) /\ s.hi = s.len - Len(markerEnd)) => s.len >= 6

\* The scan has left the 5-byte line "-- --" behind and has then taken the name
\* from a line of exactly 6 bytes, "--  --".
C30_Witness ==
    /\ <<"-", "-", " ", "-", "-">> \in scan.skipped
    /\ sliceExpr(3, 3, 6) \in scan.slices
====
